---- MODULE Spec2Model ----
(***************************************************************************)
(* Team-coordinator plugin of the-org: registration of the periodic        *)
(* check-in task against the host runtime (registerTasks and               *)
(* registerTasksWithRetry), the project-manager init that starts it, the   *)
(* task worker's ticks, and the action handlers' entry points.             *)
(***************************************************************************)
EXTENDS Integers, Sequences, FiniteSets, TLC

\* ------------------------------------------------------------------ bounds
MaxRestarts == 1      \* process restarts (each one re-runs the init and the retry loop)
MaxTicks == 2         \* invocations of the worker's execute per process
MaxCalls == 2         \* handler invocations made by the host
MaxClock == 1         \* milliseconds Date.now() advances over
MaxChannels == 2      \* text channels of a guild
MaxMembers == 3       \* members of a stored team
MaxArgs == 2          \* command-line arguments
MaxTime == 6          \* units of five minutes the job's clock runs over
MaxRuns == 2          \* retry loops active in one process (the plugin initialised that often)

\* ------------------------------------------------------- program constants
Retries == 10                 \* registerTasksWithRetry(retries = 10, ...)
InitialDelay == 2000 * 1000   \* delay = 2000 ms, kept in 1/1000 ms so that *1.2 is exact
MaxDelay == 5000 * 1000       \* Math.min(..., 5000)
BackoffNum == 12              \* delay * 1.2 = delay * 12 / 10
BackoffDen == 10
PollingInterval == 3          \* updateInterval: 1000 * 60 * 15, in units of five minutes

WorkerName == "TEAM_CHECK_IN_SERVICE"
CoordTags == {"queue", "repeat", "team_coordinator"}
ForeignTask == [id |-> 0, name |-> "OTHER", tags |-> {"queue", "repeat"}]

\* teamCoordinatorPlugin.actions
PluginActions ==
  {"JIMMY_SUPPORT", "TEAM_MEMBER_UPDATES", "LIST_CHECK_IN_SCHEDULES", "GENERATE_REPORT",
   "RECORD_CHECK_IN", "CHECK_IN_INFO", "ADD_TEAM_MEMBER", "LIST_TEAM_MEMBERS",
   "UPDATES_FORMAT"}

VARIABLES
  \* host runtime (the collaborator)
  hasGetTasks,        \* runtime.getTasks is a function
  hasCreateTask,      \* runtime.createTask is a function
  hasAdapter,         \* runtime.adapter is set
  faulty,             \* calls into the host may throw
  tasks,              \* the host task store (survives a restart)
  nextId,             \* id the store gives to the next created task
  \* projectManager.init
  pmPc,
  registeredActions,
  services,
  \* registerTasksWithRetry / registerTasks
  loopPc,
  i,
  delay,
  attempts,           \* iterations of the retry loop entered so far
  toDelete,           \* tasks returned by getTasks and not yet deleted
  workers,            \* names given to runtime.registerTaskWorker
  created,            \* what the current registerTasks run did about createTask
  restarts,
  \* worker ticks
  tick,
  isJobRunning,
  \* action handlers
  calls,              \* the handler invocations made by the host
  stateData,          \* state.data of each state object: the execution keys set in it
  rooms,              \* rooms of the record store that exist
  configStore,        \* records of the report-channel-config room, in insertion order
  scheduleStore,      \* records of the check-in-schedules room, in insertion order
  now,                \* Date.now()
  reportChannelConfigs,  \* CheckInService.reportChannelConfigs: server id -> channel id
  \* channel-name resolution of the record handler, on its own
  textChannels,       \* the guild's text channels, in the order of the fetch
  channelName,        \* the channel name the extraction returned
  channelId,          \* the id the handler resolved it to ("unset" before)
  \* the member list of the list handler, on its own
  teamMembers,        \* configData.teamMembers of the stored record
  formattedMembers,   \* the member lines of the reply (none before)
  \* src/index.ts: the agents of the project
  rawArgs,            \* process.argv.slice(2)
  characters,         \* plugins and secrets of each agent's character
  potentialAgentFlags,
  project,            \* project.agents
  indexPc,            \* "start" before the module is evaluated, "loaded" after
  \* the job's evaluation of the schedules
  utcNow,             \* the time of the job's clock, in units of five minutes
  lastDispatched,     \* per schedule: the instant it was last dispatched for
  dispatches,         \* per schedule: the dispatches made, each with its tick's time
  \* CheckInService.start
  loadPc,             \* where loadReportChannelConfigs is: "room", "reading", "done"
  loadFrom,           \* records the config room held when getMemories was called
  \* retry loops that overlap in one process
  runPc,              \* per loop: where it is
  runI,               \* per loop: its i
  runDelay,           \* per loop: its delay
  runListed           \* per loop: the tasks its getTasks returned, not yet deleted

\* The inputs and results of the computations that are studied on their own;
\* no registration step and no handler step touches them.
channelVars == <<textChannels, channelName, channelId>>
listVars == <<teamMembers, formattedMembers>>
indexVars == <<rawArgs, characters, potentialAgentFlags, project, indexPc>>
evaluatorVars == <<utcNow, lastDispatched, dispatches>>
loadVars == <<loadPc, loadFrom>>
overlapVars == <<runPc, runI, runDelay, runListed>>

fnVars == <<channelVars, listVars, indexVars, evaluatorVars, loadVars, overlapVars>>

registrationState ==
  <<hasGetTasks, hasCreateTask, hasAdapter, faulty, tasks, nextId, pmPc,
    registeredActions, services, loopPc, i, delay, attempts, toDelete,
    workers, created, restarts, tick, isJobRunning>>

handlerState == <<calls, stateData, rooms, configStore, scheduleStore, now,
                  reportChannelConfigs>>

regVars == <<registrationState, fnVars>>

handlerVars == <<handlerState, fnVars>>

vars == <<registrationState, handlerState, fnVars>>

hostVars == <<hasGetTasks, hasCreateTask, hasAdapter, faulty>>
loopVars == <<loopPc, i, delay, attempts, toDelete, created>>
tickVars == <<tick, isJobRunning>>
pmVars == <<pmPc, registeredActions, services>>

Min(a, b) == IF a < b THEN a ELSE b

Ticks == 1..MaxTicks

\* --------------------------------------------------------------- the host
\* The condition registerTasksWithRetry tests before it calls registerTasks.
RuntimeReady == hasGetTasks /\ hasAdapter /\ hasCreateTask

\* The task subsystem is there and its calls succeed.
Available == RuntimeReady /\ ~faulty

\* What a call into the host can do: it succeeds when the subsystem is
\* available, and otherwise it may succeed or throw.
CallOutcomes == IF Available THEN {"ok"} ELSE {"ok", "throw"}

\* runtime.getTasks({tags}): the tasks carrying every one of the tags.
GetTasks(tags) == {t \in tasks : tags \subseteq t.tags}

CoordTasks == GetTasks(CoordTags)

HostChange ==
  /\ \/ hasGetTasks' = ~hasGetTasks /\ UNCHANGED <<hasCreateTask, hasAdapter, faulty>>
     \/ hasCreateTask' = ~hasCreateTask /\ UNCHANGED <<hasGetTasks, hasAdapter, faulty>>
     \/ hasAdapter' = ~hasAdapter /\ UNCHANGED <<hasGetTasks, hasCreateTask, faulty>>
     \/ faulty' = ~faulty /\ UNCHANGED <<hasGetTasks, hasCreateTask, hasAdapter>>
  /\ UNCHANGED <<tasks, nextId, pmVars, loopVars, workers, restarts, tickVars>>
  /\ UNCHANGED handlerVars

\* ------------------------------------------------------ projectManager.init
\* await initCharacter(...); then every plugin action is given to
\* runtime.registerAction, and init sleeps 3 s.
PMRegisterActions ==
  /\ pmPc = "start"
  /\ \E r \in {"ok", "throw"} :
       IF r = "ok"
         THEN pmPc' = "sleep" /\ registeredActions' = PluginActions
         ELSE pmPc' = "threw" /\ UNCHANGED registeredActions
  /\ UNCHANGED <<hostVars, tasks, nextId, services, loopVars, workers, restarts, tickVars>>
  /\ UNCHANGED handlerVars

\* A plugin init that awaits the registration instead of starting it detached.
PluginInitStartsLoopMutant ==
  /\ loopPc' = "check"
  /\ pmPc' = "awaiting"

\* teamCoordinatorPlugin.init: starts registerTasksWithRetry without awaiting
\* it (a .catch is attached) and returns; projectManager.init then returns.
PluginInitStartsLoop ==
  /\ loopPc' = "check"
  /\ pmPc' = "done"

\* After the 3 s sleep: try { registerService(TeamUpdateTrackerService);
\* registerService(CheckInService); teamCoordinatorPlugin.init({}, runtime) }
\* catch { log, continue }.
PMRegisterServices ==
  /\ pmPc = "sleep"
  /\ \E r \in {"ok", "throw"} :
       IF r = "ok"
         THEN /\ services' = {"team-update-tracker-service", "CHECKIN_SERVICE"}
              /\ PluginInitStartsLoop
         ELSE /\ pmPc' = "done"
              /\ UNCHANGED <<services, loopPc>>
  /\ UNCHANGED <<hostVars, tasks, nextId, registeredActions, i, delay, attempts, toDelete,
                 created, workers, restarts, tickVars>>
  /\ UNCHANGED handlerVars

\* -------------------------------------------------------------- registerTasks
PeriodicTask(id) == [id |-> id, name |-> WorkerName, tags |-> CoordTags]

\* A creation step whose readiness test never passes.
CreatePeriodicTaskMutant(store) ==
  /\ tasks' = store
  /\ nextId' = nextId
  /\ created' = "skipped"

\* try { if (createTask is a function && adapter) createTask({...}) else warn }
\* catch { log }; createTask is not awaited. store is the task store as the
\* purge of this run left it.
CreatePeriodicTask(store) ==
  IF hasCreateTask /\ hasAdapter
    THEN \E c \in CallOutcomes :
           IF c = "ok"
             THEN /\ tasks' = store \cup {PeriodicTask(nextId)}
                  /\ nextId' = nextId + 1
                  /\ created' = "created"
             ELSE /\ tasks' = store
                  /\ nextId' = nextId
                  /\ created' = "failed"
    ELSE /\ tasks' = store
         /\ nextId' = nextId
         /\ created' = "skipped"

\* A tail that creates the periodic task before it registers the worker, so
\* that the task is there when registerTaskWorker throws.
RegisterWorkerAndCreateMutant(store) ==
  \E w \in CallOutcomes :
    /\ CreatePeriodicTask(store)
    /\ IF w = "ok"
         THEN workers' = workers \cup {WorkerName} /\ loopPc' = "success"
         ELSE workers' = workers /\ loopPc' = "wait"

\* The synchronous tail of registerTasks: registerTaskWorker, then the
\* creation of the periodic task, then the return into the retry loop, which
\* logs success and returns. A throw of registerTaskWorker rejects
\* registerTasks, and the loop's catch goes on to the wait.
RegisterWorkerAndCreate(store) ==
  \E w \in CallOutcomes :
    IF w = "ok"
      THEN /\ workers' = workers \cup {WorkerName}
           /\ CreatePeriodicTask(store)
           /\ loopPc' = "success"
      ELSE /\ tasks' = store
           /\ loopPc' = "wait"
           /\ UNCHANGED <<workers, nextId, created>>

\* The head of registerTasks: the service is looked up (a new
\* TeamUpdateTrackerService is built when there is none, which may throw), then
\* getTasks is called when it is a function.
RegisterTasksStart ==
  \E s \in (IF "team-update-tracker-service" \in services THEN {"ok"} ELSE CallOutcomes) :
    IF s = "throw"
      THEN /\ loopPc' = "wait"
           /\ UNCHANGED <<tasks, nextId, workers, created>>
      ELSE IF hasGetTasks
             THEN /\ loopPc' = "listing"
                  /\ UNCHANGED <<tasks, nextId, workers, created>>
             ELSE RegisterWorkerAndCreate(tasks)

\* await runtime.getTasks({tags}) settles. A throw is caught and registration
\* continues; with nothing to delete the tail runs in the same turn.
RegListed ==
  /\ loopPc = "listing"
  /\ \E r \in CallOutcomes :
       IF r = "ok" /\ CoordTasks # {}
         THEN /\ toDelete' = CoordTasks
              /\ loopPc' = "deleting"
              /\ UNCHANGED <<tasks, nextId, workers, created>>
         ELSE /\ toDelete' = {}
              /\ RegisterWorkerAndCreate(tasks)
  /\ UNCHANGED <<hostVars, pmVars, i, delay, attempts, restarts, tickVars>>
  /\ UNCHANGED handlerVars

\* await runtime.deleteTask(task.id) settles for one listed task (every stored
\* task has an id). A throw leaves the loop of deletions through the catch.
RegDeleteOne ==
  /\ loopPc = "deleting"
  /\ \E t \in toDelete : \E r \in CallOutcomes :
       IF r = "ok"
         THEN /\ toDelete' = toDelete \ {t}
              /\ IF toDelete \ {t} = {}
                   THEN RegisterWorkerAndCreate({u \in tasks : u.id # t.id})
                   ELSE /\ tasks' = {u \in tasks : u.id # t.id}
                        /\ UNCHANGED <<loopPc, nextId, workers, created>>
         ELSE /\ toDelete' = {}
              /\ RegisterWorkerAndCreate(tasks)
  /\ UNCHANGED <<hostVars, pmVars, i, delay, attempts, restarts, tickVars>>
  /\ UNCHANGED handlerVars

\* ---------------------------------------------------- registerTasksWithRetry
\* A loop without the return after registerTasks: it goes on to the next
\* iteration.
LoopAttemptMutant ==
  /\ loopPc \in {"check", "success"}
  /\ attempts' = attempts + 1
  /\ toDelete' = {}
  /\ IF RuntimeReady
       THEN RegisterTasksStart
       ELSE /\ loopPc' = "wait"
            /\ UNCHANGED <<tasks, nextId, workers, created>>
  /\ UNCHANGED <<hostVars, pmVars, i, delay, restarts, tickVars>>
  /\ UNCHANGED handlerVars

\* One iteration of the for loop up to its first await.
LoopAttempt ==
  /\ loopPc = "check"
  /\ attempts' = attempts + 1
  /\ toDelete' = {}
  /\ IF RuntimeReady
       THEN RegisterTasksStart
       ELSE /\ loopPc' = "wait"
            /\ UNCHANGED <<tasks, nextId, workers, created>>
  /\ UNCHANGED <<hostVars, pmVars, i, delay, restarts, tickVars>>
  /\ UNCHANGED handlerVars

\* A backoff without the cap.
NextDelayMutant(d) == (d * BackoffNum) \div BackoffDen

\* delay = Math.min(delay * 1.2, 5000)
NextDelay(d) == Min((d * BackoffNum) \div BackoffDen, MaxDelay)

\* A loop test that is off by one.
LoopContinuesMutant(n) == n <= Retries

\* i < retries
LoopContinues(n) == n < Retries

\* The setTimeout of the wait fires: the delay grows, i++ and the loop test.
LoopTimer ==
  /\ loopPc = "wait"
  /\ delay' = NextDelay(delay)
  /\ i' = i + 1
  /\ loopPc' = IF LoopContinues(i + 1) THEN "check" ELSE "exhausted"
  /\ UNCHANGED <<hostVars, tasks, nextId, pmVars, attempts, toDelete, workers, created,
                 restarts, tickVars>>
  /\ UNCHANGED handlerVars

\* ---------------------------------------------- retry loops that overlap
\* teamCoordinatorPlugin.init run more than once in a process: every run of it
\* starts a registerTasksWithRetry of its own, with its own i, delay and list
\* of tasks to delete, on the one host task store.
Runs == 1..MaxRuns

OverlapIdle ==
  /\ runPc = [r \in Runs |-> "idle"]
  /\ runI = [r \in Runs |-> 0]
  /\ runDelay = [r \in Runs |-> InitialDelay]
  /\ runListed = [r \in Runs |-> {}]

\* What a step of one of the loops leaves alone.
overlapRest ==
  <<hostVars, pmVars, loopPc, i, delay, attempts, toDelete, restarts, tickVars,
    handlerState, channelVars, listVars, indexVars, evaluatorVars, loadVars>>

RunGoto(r, pc) == runPc' = [runPc EXCEPT ![r] = pc]

\* init starts registerTasksWithRetry without awaiting it and returns.
OverlapInitPlugin ==
  /\ \E r \in Runs :
       /\ runPc[r] = "idle"
       /\ \A q \in 1..(r - 1) : runPc[q] # "idle"
       /\ RunGoto(r, "check")
  /\ UNCHANGED <<tasks, nextId, workers, created, runI, runDelay, runListed, overlapRest>>

\* The synchronous tail of registerTasks in loop r: registerTaskWorker, the
\* creation of the periodic task, and the return into the loop.
OverlapTail(r, store) ==
  \E w \in CallOutcomes :
    IF w = "ok"
      THEN /\ workers' = workers \cup {WorkerName}
           /\ CreatePeriodicTask(store)
           /\ RunGoto(r, "success")
      ELSE /\ tasks' = store
           /\ RunGoto(r, "wait")
           /\ UNCHANGED <<workers, nextId, created>>

\* The head of registerTasks in loop r, up to the await of getTasks.
OverlapHead(r) ==
  \E s \in (IF "team-update-tracker-service" \in services THEN {"ok"} ELSE CallOutcomes) :
    IF s = "throw"
      THEN /\ RunGoto(r, "wait")
           /\ UNCHANGED <<tasks, nextId, workers, created>>
      ELSE IF hasGetTasks
             THEN /\ RunGoto(r, "listing")
                  /\ UNCHANGED <<tasks, nextId, workers, created>>
             ELSE OverlapTail(r, tasks)

\* One iteration of loop r up to its first await.
OverlapAttempt ==
  /\ \E r \in Runs :
       /\ runPc[r] = "check"
       /\ runListed' = [runListed EXCEPT ![r] = {}]
       /\ IF RuntimeReady
            THEN OverlapHead(r)
            ELSE /\ RunGoto(r, "wait")
                 /\ UNCHANGED <<tasks, nextId, workers, created>>
  /\ UNCHANGED <<runI, runDelay, overlapRest>>

\* await runtime.getTasks({tags}) settles in loop r: the coordinator tasks in
\* the store at this moment are the ones this run will delete.
OverlapListed ==
  /\ \E r \in Runs :
       /\ runPc[r] = "listing"
       /\ \E res \in CallOutcomes :
            IF res = "ok" /\ CoordTasks # {}
              THEN /\ runListed' = [runListed EXCEPT ![r] = CoordTasks]
                   /\ RunGoto(r, "deleting")
                   /\ UNCHANGED <<tasks, nextId, workers, created>>
              ELSE /\ runListed' = [runListed EXCEPT ![r] = {}]
                   /\ OverlapTail(r, tasks)
  /\ UNCHANGED <<runI, runDelay, overlapRest>>

\* await runtime.deleteTask(task.id) settles in loop r for one listed task; a
\* task another loop deleted meanwhile is not in the store any more.
OverlapDeleteOne ==
  /\ \E r \in Runs :
       /\ runPc[r] = "deleting"
       /\ \E t \in runListed[r] : \E res \in CallOutcomes :
            IF res = "ok"
              THEN /\ runListed' = [runListed EXCEPT ![r] = @ \ {t}]
                   /\ IF runListed[r] \ {t} = {}
                        THEN OverlapTail(r, {u \in tasks : u.id # t.id})
                        ELSE /\ tasks' = {u \in tasks : u.id # t.id}
                             /\ UNCHANGED <<runPc, nextId, workers, created>>
              ELSE /\ runListed' = [runListed EXCEPT ![r] = {}]
                   /\ OverlapTail(r, tasks)
  /\ UNCHANGED <<runI, runDelay, overlapRest>>

\* The setTimeout of loop r's wait fires.
OverlapTimer ==
  /\ \E r \in Runs :
       /\ runPc[r] = "wait"
       /\ runDelay' = [runDelay EXCEPT ![r] = NextDelay(@)]
       /\ runI' = [runI EXCEPT ![r] = @ + 1]
       /\ RunGoto(r, IF LoopContinues(runI[r] + 1) THEN "check" ELSE "exhausted")
  /\ UNCHANGED <<tasks, nextId, workers, created, runListed, overlapRest>>

\* ------------------------------------------------------------- worker ticks
\* TeamUpdateTrackerService.checkInServiceJob, whose body is not among the
\* sources: by the specification's run-serialization the job returns at once
\* while a previous run of it has not finished.
JobGuardPasses == ~isJobRunning

\* An execute that runs the job without regard to a run in flight.
ExecuteMutant(t) ==
  /\ tick' = [tick EXCEPT ![t] = "running"]
  /\ isJobRunning' = TRUE

\* execute: try { await teamUpdateService.checkInServiceJob() } ..., entered.
Execute(t) ==
  IF JobGuardPasses
    THEN /\ tick' = [tick EXCEPT ![t] = "running"]
         /\ isJobRunning' = TRUE
    ELSE /\ tick' = [tick EXCEPT ![t] = "skipped"]
         /\ UNCHANGED isJobRunning

\* An execute without the catch.
ExecuteSettlesMutant(r) == IF r = "throw" THEN "rejected" ELSE "resolved"

\* execute: ... catch (error) { logger.error(...) }: how execute settles when
\* the job returned or threw.
ExecuteSettles(r) == IF r = "throw" THEN "caught" ELSE "resolved"

\* The host invokes the registered worker's execute.
TickStart ==
  /\ WorkerName \in workers
  /\ \E t \in Ticks :
       /\ tick[t] = "idle"
       /\ \A u \in 1..(t - 1) : tick[u] # "idle"
       /\ Execute(t)
  /\ UNCHANGED <<hostVars, tasks, nextId, pmVars, loopVars, workers, restarts>>
  /\ UNCHANGED handlerVars

\* The job of a running tick returns or throws; the job clears its guard.
TickFinish ==
  /\ \E t \in Ticks : \E r \in {"ok", "throw"} :
       /\ tick[t] = "running"
       /\ tick' = [tick EXCEPT ![t] = ExecuteSettles(r)]
       /\ isJobRunning' = FALSE
  /\ UNCHANGED <<hostVars, tasks, nextId, pmVars, loopVars, workers, restarts>>
  /\ UNCHANGED handlerVars

\* ------------------------------------------------------------------ restart
\* The process is restarted: everything in memory is lost, the task store and
\* the host's readiness are kept.
Restart ==
  /\ restarts < MaxRestarts
  /\ restarts' = restarts + 1
  /\ pmPc' = "start"
  /\ registeredActions' = {}
  /\ services' = {}
  /\ loopPc' = "idle"
  /\ i' = 0
  /\ delay' = InitialDelay
  /\ attempts' = 0
  /\ toDelete' = {}
  /\ workers' = {}
  /\ created' = "none"
  /\ tick' = [t \in Ticks |-> "idle"]
  /\ isJobRunning' = FALSE
  /\ UNCHANGED <<hostVars, tasks, nextId>>
  /\ UNCHANGED handlerVars

\* ------------------------------------------------------------ action handlers
Calls == 1..MaxCalls
Msgs == {"m1", "m2"}
StateObjs == {"s1", "s2"}
Servers == {"A", "B"}

\* The state objects the host hands to a handler with a message: m1 is
\* processed with either one (a redelivery reuses the state or builds it anew),
\* m2 with s2, or with none at all.
StatesOf(m) == (IF m = "m1" THEN StateObjs ELSE {"s2"}) \cup {"undefined"}

\* The server of the room a message came from.
ServerOf(m) == IF m = "m1" THEN "A" ELSE "B"

\* CheckInSchedule['frequency']
Frequencies == {"DAILY", "WEEKLY", "BI-WEEKLY", "MONTHLY", "WEEKDAYS"}

\* The guild's text channels, in the order guild.channels.fetch() gives them.
GuildChannels == <<[id |-> "c1", name |-> "General"], [id |-> "c2", name |-> "updates"]>>

\* Names of channels, as they are stored and as they are typed.
ChannelNames == {"General", "GENERAL", "general", "Updates", "updates", "random"}

\* String.prototype.toLowerCase on the names that occur.
ToLowerCase(str) ==
  CASE str = "General" -> "general"
    [] str = "GENERAL" -> "general"
    [] str = "Updates" -> "updates"
    [] str = "devRel" -> "devrel"
    [] str = "DEVREL" -> "devrel"
    [] str = "communityManager" -> "communitymanager"
    [] str = "projectManager" -> "projectmanager"
    [] str = "socialMediaManager" -> "socialmediamanager"
    [] OTHER -> str

\* Array.prototype.find with the handler's predicate: the first channel whose
\* name in lower case is the given name, or none.
FindChannel(channels, lowerName) ==
  LET hits == {k \in 1..Len(channels) : ToLowerCase(channels[k].name) = lowerName}
  IN IF hits = {} THEN <<>>
     ELSE <<channels[CHOOSE k \in hits : \A h \in hits : k <= h]>>

\* A lookup that compares the stored names as they are.
ResolveChannelMutant(channels, name) ==
  LET hits == {k \in 1..Len(channels) : channels[k].name = ToLowerCase(name)}
  IN IF hits = {} THEN "" ELSE channels[CHOOSE k \in hits : \A h \in hits : k <= h].id

\* textChannels.find(channel => channel.name.toLowerCase() === name)?.id || ''
\* where name is the extracted name in lower case.
ResolveChannel(channels, name) ==
  LET found == FindChannel(channels, ToLowerCase(name))
  IN IF found = <<>> THEN "" ELSE found[1].id

\* x || d on strings: the empty (or missing) string gives the default.
OrDefault(x, d) == IF x = "" THEN d ELSE x

\* What the extraction call yields for the text of a message: m1 names two
\* channels of the guild, a frequency and a 24-hour time; m2 names no channel
\* for the updates, a channel the guild does not have for the check-ins, and
\* a frequency and a time in words of its own.
ExtractedFields(m) ==
  IF m = "m1"
    THEN [channelForUpdates |-> "Updates", channelForCheckIns |-> "GENERAL",
          frequency |-> "DAILY", time |-> "14:30"]
    ELSE [channelForUpdates |-> "", channelForCheckIns |-> "random",
          frequency |-> "HOURLY", time |-> "9 AM"]

\* The schedule fields the record handler builds from the extracted fields:
\* channelId: checkInConfig.checkInChannelId || '', frequency:
\* checkInConfig.frequency || 'WEEKLY', checkInTime: checkInConfig.time || '09:00'.
RecordedFields(channels, m) ==
  [channelId |-> ResolveChannel(channels, ExtractedFields(m).channelForCheckIns),
   frequency |-> OrDefault(ExtractedFields(m).frequency, "WEEKLY"),
   checkInTime |-> OrDefault(ExtractedFields(m).time, "09:00")]

ConfigRoom == "report-channel-config"
ScheduleRoom == "check-in-schedules"

\* An invocation: what it was called with (kind, msg, st, cb, sel), its locals
\* (existing, schedId, memTime, ensured), what the host saw of it (result,
\* replies) and what happened in it (passed, negative, extracted, unparsable,
\* cbThrew, duplicate, wrote..., members: what the list handler found stored).
NoCall ==
  [pc |-> "new", kind |-> "none", msg |-> "none", st |-> "none", cb |-> FALSE,
   sel |-> "none", server |-> "none", existing |-> FALSE, schedId |-> 0, memTime |-> 0, ensured |-> {},
   result |-> "pending", replies |-> <<>>, passed |-> FALSE, negative |-> FALSE,
   extracted |-> FALSE, unparsable |-> FALSE, cbThrew |-> FALSE, duplicate |-> FALSE,
   wroteConfig |-> FALSE, wroteSchedule |-> FALSE, members |-> "unread"]

\* The guilds in the client's cache whose channels can be fetched: the guild
\* of server A is, that of server B is not (or its fetch fails).
ReachableGuilds == {"A"}

\* The handler's textChannels after the fetch: the guild's channels, or none
\* when the guild was not found or the fetch failed (which is only logged).
TextChannels(c) ==
  IF ServerOf(c.msg) \in ReachableGuilds THEN GuildChannels ELSE <<>>

Invocation(kind, m, st, cb) ==
  [NoCall EXCEPT !.kind = kind, !.msg = m, !.st = st, !.cb = cb]

\* The host starts the invocations one after the other.
NextCall(v) == calls[v].pc = "new" /\ \A u \in 1..(v - 1) : calls[u].pc # "new"

At(v, kind, pc) == calls[v].kind = kind /\ calls[v].pc = pc

Goto(v, c, pc) == calls' = [calls EXCEPT ![v] = [c EXCEPT !.pc = pc]]

\* The handler returns: its locals are gone, what the host saw of it is kept.
Return(v, c, res) ==
  calls' = [calls EXCEPT ![v] = [c EXCEPT !.pc = "done", !.result = res, !.existing = FALSE,
                                            !.schedId = 0, !.memTime = 0, !.ensured = {}]]

Replied(c, text) == [c EXCEPT !.replies = Append(@, text)]

\* await callback(...) as the last statement before `return res` inside the
\* handler's try, the catch of which returns false.
ReplyAndReturn(v, c, text, res) ==
  \E o \in {"ok", "throw"} :
    Return(v, [Replied(c, text) EXCEPT !.cbThrew = (o = "throw")],
           IF o = "ok" THEN res ELSE "false")

\* runtime.createMemory: the store refuses a record whose room does not exist
\* or whose id is already stored, and may fail otherwise.
CreateOutcomes(store, room, id) ==
  IF room \in rooms /\ \A k \in 1..Len(store) : store[k].id # id
    THEN {"ok", "throw"}
    ELSE {"throw"}

\* runtime.ensureRoomExists settles; the handlers catch its failure and go on.
EnsureRoomExists(room) ==
  \E r \in {"ok", "throw"} :
    rooms' = IF r = "ok" THEN rooms \cup {room} ELSE rooms

\* The invocation has called ensureRoomExists for the room.
Ensured(c, room) == [c EXCEPT !.ensured = @ \cup {room}]

\* memories.find(memory => memory.content.type === 'report-channel-config')
ExistingConfig ==
  \E k \in 1..Len(configStore) : configStore[k].type = "report-channel-config"

\* Date.now(): the time read is the time of the last read or later.
DateNow(t) == t \in now..MaxClock /\ now' = t

ExecutionKey(prefix, m) == <<prefix, m>>

\* An entry that tests the flag and never sets it.
RecordGuardedEntryMutant(v, c) ==
  IF ExecutionKey("record-check-in", c.msg) \in stateData[c.st]
    THEN Return(v, c, "true") /\ UNCHANGED stateData
    ELSE Goto(v, [c EXCEPT !.passed = TRUE], "discord") /\ UNCHANGED stateData

\* recordCheckInAction.handler: const executionKey = `record-check-in-${message.id}`;
\* if (state.data[executionKey]) return true; state.data[executionKey] = true;
RecordGuardedEntry(v, c) ==
  IF ExecutionKey("record-check-in", c.msg) \in stateData[c.st]
    THEN Return(v, c, "true") /\ UNCHANGED stateData
    ELSE /\ stateData' = [stateData EXCEPT
                            ![c.st] = @ \cup {ExecutionKey("record-check-in", c.msg)}]
         /\ Goto(v, [c EXCEPT !.passed = TRUE], "discord")

\* The host calls recordCheckInAction.handler(runtime, message, state, options,
\* callback): the head of the handler up to its first await.
RecordInvoke ==
  /\ \E v \in Calls, m \in Msgs : \E st \in StatesOf(m), cb \in BOOLEAN :
       /\ NextCall(v)
       /\ IF st = "undefined" \/ ~cb
            THEN Return(v, Invocation("record", m, st, cb), "false") /\ UNCHANGED stateData
            ELSE RecordGuardedEntry(v, Invocation("record", m, st, cb))
  /\ UNCHANGED <<rooms, configStore, scheduleStore, now, reportChannelConfigs, regVars>>

\* await ensureDiscordClient(runtime) settles: without the service or its
\* client it throws, the apology is sent and the handler returns false. Then
\* the room and its server are looked up (return false without them) and the
\* guild's channels are fetched: a guild that is not in the cache and a fetch
\* that fails are logged and leave textChannels empty (TextChannels). Then the
\* message text is read (return false without it).
RecordDiscord ==
  /\ \E v \in Calls :
       /\ At(v, "record", "discord")
       /\ \/ Return(v, Replied(calls[v], "apology"), "false")
          \/ Return(v, calls[v], "false")
          \/ Goto(v, calls[v], "memories")
  /\ UNCHANGED <<stateData, rooms, configStore, scheduleStore, now, reportChannelConfigs, regVars>>

\* await runtime.getMemories({roomId: report-channel-config room}) settles.
RecordMemories ==
  /\ \E v \in Calls :
       /\ At(v, "record", "memories")
       /\ \/ Goto(v, [calls[v] EXCEPT !.existing = ExistingConfig], "classify")
          \/ Return(v, calls[v], "false")
  /\ UNCHANGED <<stateData, rooms, configStore, scheduleStore, now, reportChannelConfigs, regVars>>

\* What runtime.useModel may answer to the classification prompt for the text
\* of a message ("throw": the call rejects): for m1 the word asked for, in
\* some spelling; for m2 'false', or a sentence instead of the word.
ClassifierAnswers(m) ==
  IF m = "m1" THEN {"true", " False\n", "throw"}
  ELSE {"false", "It looks like a configuration.", "throw"}

\* parsedConfigResponse.trim().toLowerCase() on the answers that occur.
TrimLowerCase(a) == IF a = " False\n" THEN "false" ELSE a

\* A handler that logs the negative answer and goes on to the extraction.
RecordClassifyMutant ==
  /\ \E v \in Calls :
       /\ At(v, "record", "classify")
       /\ \E a \in ClassifierAnswers(calls[v].msg) :
            IF a = "throw" THEN Return(v, calls[v], "false")
            ELSE Goto(v, [calls[v] EXCEPT !.negative = (TrimLowerCase(a) = "false"),
                                          !.extracted = TRUE],
                      "extract")
  /\ UNCHANGED <<stateData, rooms, configStore, scheduleStore, now, reportChannelConfigs, regVars>>

\* The classification call settles: on the answer 'false' (trimmed, lower
\* case) the guidance is sent and the handler returns true.
RecordClassify ==
  /\ \E v \in Calls :
       /\ At(v, "record", "classify")
       /\ \E a \in ClassifierAnswers(calls[v].msg) :
            IF a = "throw" THEN Return(v, calls[v], "false")
            ELSE IF TrimLowerCase(a) = "false"
              THEN ReplyAndReturn(v, [calls[v] EXCEPT !.negative = TRUE], "guidance", "true")
            ELSE Goto(v, [calls[v] EXCEPT !.extracted = TRUE], "extract")
  /\ UNCHANGED <<stateData, rooms, configStore, scheduleStore, now, reportChannelConfigs, regVars>>

\* The extraction call settles and its text is parsed. A throw is answered
\* with the request to retry (callback not awaited) and false; a parse that
\* yields no object makes the next property access throw into the outer catch.
\* With an existing config the handler goes straight to the schedule, whose id
\* is taken from Date.now().
RecordExtract ==
  /\ \E v \in Calls :
       /\ At(v, "record", "extract")
       /\ \E r \in {"parsed", "threw", "null"} :
            IF r = "threw"
              THEN /\ UNCHANGED now
                   /\ Return(v, Replied([calls[v] EXCEPT !.unparsable = TRUE], "retry"), "false")
            ELSE IF r = "null"
              THEN /\ UNCHANGED now
                   /\ Return(v, [calls[v] EXCEPT !.unparsable = TRUE], "false")
            ELSE IF calls[v].existing
              THEN \E t \in 0..MaxClock :
                     DateNow(t) /\ Goto(v, [calls[v] EXCEPT !.schedId = t], "schRoom")
              ELSE UNCHANGED now /\ Goto(v, calls[v], "cfgRoom")
  /\ UNCHANGED <<stateData, rooms, configStore, scheduleStore, reportChannelConfigs, regVars>>

\* await runtime.ensureRoomExists({id: roomId, ...}) for the config room.
RecordCfgRoom ==
  /\ \E v \in Calls :
       /\ At(v, "record", "cfgRoom")
       /\ EnsureRoomExists(ConfigRoom)
       /\ Goto(v, Ensured(calls[v], ConfigRoom), "cfgStore")
  /\ UNCHANGED <<stateData, configStore, scheduleStore, now, reportChannelConfigs, regVars>>

\* A config record whose id is new with every record written.
ConfigMemoryMutant(server, channel) ==
  [id |-> <<"report-channel-config", server, Len(configStore)>>,
   type |-> "report-channel-config", serverId |-> server, channelId |-> channel]

\* The config record of the record handler: its id is made from the server
\* id, its channel is checkInConfig.updateChannelId || ''.
ConfigMemory(server, channel) ==
  [id |-> <<"report-channel-config", server>>, type |-> "report-channel-config",
   serverId |-> server, channelId |-> channel]

RecordedConfig(c) ==
  ConfigMemory(ServerOf(c.msg),
               ResolveChannel(TextChannels(c), ExtractedFields(c.msg).channelForUpdates))

\* await runtime.createMemory(memory, 'messages') for the config; a failure is
\* caught and logged. Then the schedule is built, its id from Date.now().
RecordCfgStore ==
  /\ \E v \in Calls :
       /\ At(v, "record", "cfgStore")
       /\ \E r \in CreateOutcomes(configStore, ConfigRoom, RecordedConfig(calls[v]).id),
             t \in 0..MaxClock :
            /\ DateNow(t)
            /\ IF r = "ok"
                 THEN /\ configStore' = Append(configStore, RecordedConfig(calls[v]))
                      /\ Goto(v, [calls[v] EXCEPT !.wroteConfig = TRUE, !.schedId = t], "schRoom")
                 ELSE /\ UNCHANGED configStore
                      /\ Goto(v, [calls[v] EXCEPT !.schedId = t], "schRoom")
  /\ UNCHANGED <<stateData, rooms, scheduleStore, reportChannelConfigs, regVars>>

\* await runtime.ensureRoomExists({id: checkInRoomId, ...}); then the memory id
\* is built from the schedule id and Date.now().
RecordSchRoom ==
  /\ \E v \in Calls :
       /\ At(v, "record", "schRoom")
       /\ EnsureRoomExists(ScheduleRoom)
       /\ \E t \in 0..MaxClock :
            DateNow(t) /\ Goto(v, [Ensured(calls[v], ScheduleRoom) EXCEPT !.memTime = t],
                                "schStore")
  /\ UNCHANGED <<stateData, configStore, scheduleStore, reportChannelConfigs, regVars>>

\* A store that keeps one schedule per server and overwrites it.
StoreScheduleMutant(store, memory) ==
  IF \E k \in 1..Len(store) : store[k].serverId = memory.serverId
    THEN [k \in 1..Len(store) |->
            IF store[k].serverId = memory.serverId THEN memory ELSE store[k]]
    ELSE Append(store, memory)

\* runtime.createMemory(scheduleMemory, 'messages') succeeded: the record is
\* added to the check-in-schedules room.
StoreSchedule(store, memory) == Append(store, memory)

\* The schedule record: its id is made from the schedule id and Date.now().
ScheduleRecord(c, fields) ==
  [id |-> <<"checkin-schedule", c.schedId, c.memTime>>,
   type |-> "team-member-checkin-schedule", scheduleId |-> c.schedId,
   serverId |-> ServerOf(c.msg), channelId |-> fields.channelId,
   frequency |-> fields.frequency, checkInTime |-> fields.checkInTime]

ScheduleMemory(c) == ScheduleRecord(c, RecordedFields(TextChannels(c), c.msg))

\* await runtime.createMemory(scheduleMemory, 'messages'); a failure is caught
\* and logged. Then the success reply is sent and the handler returns true.
RecordSchStore ==
  /\ \E v \in Calls :
       /\ At(v, "record", "schStore")
       /\ \E r \in CreateOutcomes(scheduleStore, ScheduleRoom, ScheduleMemory(calls[v]).id) :
            IF r = "ok"
              THEN /\ scheduleStore' = StoreSchedule(scheduleStore, ScheduleMemory(calls[v]))
                   /\ ReplyAndReturn(v, [calls[v] EXCEPT !.wroteSchedule = TRUE],
                                     "success", "true")
              ELSE /\ UNCHANGED scheduleStore
                   /\ ReplyAndReturn(v, calls[v], "success", "true")
  /\ UNCHANGED <<stateData, rooms, configStore, now, reportChannelConfigs, regVars>>

\* listTeamMembersAction.handler, catch: the error reply is awaited inside the
\* catch, then false.
ListCatch(v, c) ==
  \E o \in {"ok", "throw"} :
    Return(v, Replied(c, "error"), IF o = "ok" THEN "false" ELSE "rejected")

ListReply(v, c, text, res) ==
  \/ Return(v, Replied(c, text), res)
  \/ ListCatch(v, [Replied(c, text) EXCEPT !.cbThrew = TRUE])

\* The host calls listTeamMembersAction.handler: no state or no callback
\* returns false; without state.data.serverId the failure reply is sent.
ListInvoke ==
  /\ \E v \in Calls, m \in Msgs : \E st \in StatesOf(m), cb \in BOOLEAN,
        hasServerId \in BOOLEAN :
       /\ NextCall(v)
       /\ IF st = "undefined" \/ ~cb
            THEN Return(v, Invocation("list", m, st, cb), "false")
            ELSE IF ~hasServerId
              THEN ListReply(v, Invocation("list", m, st, cb), "no_server", "false")
              ELSE Goto(v, Invocation("list", m, st, cb), "listMemories")
  /\ UNCHANGED <<stateData, rooms, configStore, scheduleStore, now, reportChannelConfigs, regVars>>

\* A handler that takes a team without members for a failure.
ListMemoriesMutant ==
  /\ \E v \in Calls :
       /\ At(v, "list", "listMemories")
       /\ \E r \in {"throw", "none", "empty", "members"} :
            IF r = "throw" THEN ListCatch(v, calls[v])
            ELSE IF r = "members"
              THEN ListReply(v, [calls[v] EXCEPT !.members = r], "members", "true")
            ELSE ListCatch(v, [calls[v] EXCEPT !.members = r])
  /\ UNCHANGED <<stateData, rooms, configStore, scheduleStore, now, reportChannelConfigs, regVars>>

\* await runtime.getMemories for the team-members room settles: it throws, or
\* holds no team-members record (or one without config), or one with no
\* member, or one with members.
ListMemories ==
  /\ \E v \in Calls :
       /\ At(v, "list", "listMemories")
       /\ \E r \in {"throw", "none", "empty", "members"} :
            IF r = "throw" THEN ListCatch(v, calls[v])
            ELSE IF r = "members"
              THEN ListReply(v, [calls[v] EXCEPT !.members = r], "members", "true")
            ELSE ListReply(v, [calls[v] EXCEPT !.members = r], "no_members", "true")
  /\ UNCHANGED <<stateData, rooms, configStore, scheduleStore, now, reportChannelConfigs, regVars>>

\* The host calls checkInInfoAction.handler.
InfoInvoke ==
  /\ \E v \in Calls, m \in Msgs : \E st \in StatesOf(m), cb \in BOOLEAN :
       /\ NextCall(v)
       /\ IF st = "undefined" \/ ~cb
            THEN Return(v, Invocation("info", m, st, cb), "false")
            ELSE Goto(v, Invocation("info", m, st, cb), "discord")
  /\ UNCHANGED <<stateData, rooms, configStore, scheduleStore, now, reportChannelConfigs, regVars>>

\* await ensureDiscordClient(runtime) settles; on failure the basic guide is
\* sent and the handler returns false.
InfoDiscord ==
  /\ \E v \in Calls :
       /\ At(v, "info", "discord")
       /\ \/ Goto(v, calls[v], "channels")
          \/ Return(v, Replied(calls[v], "basic_info"), "false")
  /\ UNCHANGED <<stateData, rooms, configStore, scheduleStore, now, reportChannelConfigs, regVars>>

\* The room and its server are looked up and the channels are fetched.
InfoChannels ==
  /\ \E v \in Calls :
       /\ At(v, "info", "channels")
       /\ \/ Goto(v, calls[v], "memories")
          \/ Return(v, calls[v], "false")
  /\ UNCHANGED <<stateData, rooms, configStore, scheduleStore, now, reportChannelConfigs, regVars>>

\* await runtime.getMemories settles; the reply asks for the report channel
\* too when no config record is stored.
InfoMemories ==
  /\ \E v \in Calls :
       /\ At(v, "info", "memories")
       /\ \/ Return(v, calls[v], "false")
          \/ ReplyAndReturn(v, calls[v],
                            IF ExistingConfig THEN "ask_schedule" ELSE "ask_config", "true")
  /\ UNCHANGED <<stateData, rooms, configStore, scheduleStore, now, reportChannelConfigs, regVars>>

\* The host calls jimmySupportAction.handler: the support text is sent.
SupportInvoke ==
  /\ \E v \in Calls, m \in Msgs : \E st \in StatesOf(m), cb \in BOOLEAN :
       /\ NextCall(v)
       /\ IF st = "undefined" \/ ~cb
            THEN Return(v, Invocation("support", m, st, cb), "false")
            ELSE ReplyAndReturn(v, Invocation("support", m, st, cb), "support", "true")
  /\ UNCHANGED <<stateData, rooms, configStore, scheduleStore, now, reportChannelConfigs, regVars>>

\* ------------------------------------------------------ CheckInService forms
\* What a submitted check-in form carries: no selections object, one with
\* nothing chosen, or one with channel, frequency and time chosen.
CheckInForms == {"none", "empty", "full"}

FormSelections(sel) ==
  IF sel = "full"
    THEN [checkin_channel |-> "c1", checkin_frequency |-> "DAILY", checkin_time |-> "14:30"]
    ELSE [checkin_channel |-> "", checkin_frequency |-> "", checkin_time |-> ""]

\* handleCheckInSubmission: channelId: selections.checkin_channel?.[0] || '',
\* frequency: ... || 'WEEKLY', checkInTime: ... || '09:00'.
SubmittedFields(sel) ==
  [channelId |-> OrDefault(FormSelections(sel).checkin_channel, ""),
   frequency |-> OrDefault(FormSelections(sel).checkin_frequency, "WEEKLY"),
   checkInTime |-> OrDefault(FormSelections(sel).checkin_time, "09:00")]

\* The error createMemory raises: a duplicate key (code 23505 on memories_pkey)
\* when the id is stored already, another error otherwise.
CreateError(store, id) ==
  IF \E k \in 1..Len(store) : store[k].id = id THEN "duplicate" ELSE "other"

\* The reply handleCheckInSubmission's catch chooses for an error.
ErrorReply(err) == IF err = "duplicate" THEN "already_submitted" ELSE "save_failed"

\* handleCheckInSubmission, catch: the reply for the error is emitted; a
\* failure to emit it (cbThrew) is caught and logged.
SubmissionCatch(v, c, err) ==
  \E o \in {"ok", "throw"} :
    Return(v, [Replied(c, ErrorReply(err)) EXCEPT !.duplicate = (err = "duplicate"),
                                                  !.cbThrew = (c.cbThrew \/ o = "throw")],
           "resolved")

\* await this.runtime.emitEvent('DISCORD_RESPONSE', ...) inside the try of
\* handleCheckInSubmission: it resolves, or it throws (cbThrew) into the catch.
EmitOrCatch(v, c, text) ==
  \/ Return(v, Replied(c, text), "resolved")
  \/ SubmissionCatch(v, [Replied(c, text) EXCEPT !.cbThrew = TRUE], "other")

\* The DISCORD_INTERACTION handler gets an event without an interaction or
\* with another customId: nothing is done.
InteractionIgnored ==
  /\ \E v \in Calls, m \in Msgs :
       /\ NextCall(v)
       /\ Return(v, Invocation("interaction", m, "none", FALSE), "resolved")
  /\ UNCHANGED <<stateData, rooms, configStore, scheduleStore, now, reportChannelConfigs, regVars>>

\* customId submit_checkin_schedule: handleCheckInSubmission up to the call of
\* storeCheckInSchedule. ensureDiscordClient may throw (into the catch), the
\* user lookup is contained, a submission without selections is answered, and
\* the schedule is built with its id from Date.now().
CheckInInvoke ==
  /\ \E v \in Calls, m \in Msgs, sel \in CheckInForms :
       /\ NextCall(v)
       /\ LET c == [Invocation("checkin", m, "none", FALSE) EXCEPT
                     !.sel = sel, !.server = ServerOf(m)]
          IN \/ SubmissionCatch(v, c, "other") /\ UNCHANGED now
             \/ sel = "none" /\ EmitOrCatch(v, c, "no_form_data") /\ UNCHANGED now
             \/ /\ sel # "none"
                /\ \E t \in 0..MaxClock :
                     DateNow(t) /\ Goto(v, [c EXCEPT !.schedId = t], "subRoom")
  /\ UNCHANGED <<stateData, rooms, configStore, scheduleStore, reportChannelConfigs, regVars>>

\* A storeCheckInSchedule that goes to createMemory without ensureRoomExists.
CheckInRoomMutant ==
  /\ \E v \in Calls :
       /\ At(v, "checkin", "subRoom")
       /\ UNCHANGED rooms
       /\ \E t \in 0..MaxClock :
            DateNow(t) /\ Goto(v, [calls[v] EXCEPT !.memTime = t], "subStore")
  /\ UNCHANGED <<stateData, configStore, scheduleStore, reportChannelConfigs, regVars>>

\* storeCheckInSchedule: await ensureRoomExists settles; a failure is rethrown
\* into the catch of handleCheckInSubmission. Then timestamp = Date.now().
CheckInRoom ==
  /\ \E v \in Calls :
       /\ At(v, "checkin", "subRoom")
       /\ \/ /\ rooms' = rooms \cup {ScheduleRoom}
             /\ \E t \in 0..MaxClock :
                  DateNow(t) /\ Goto(v, [Ensured(calls[v], ScheduleRoom) EXCEPT !.memTime = t],
                                      "subStore")
          \/ /\ UNCHANGED <<rooms, now>>
             /\ SubmissionCatch(v, Ensured(calls[v], ScheduleRoom), "other")
  /\ UNCHANGED <<stateData, configStore, scheduleStore, reportChannelConfigs, regVars>>

SubmittedSchedule(c) == ScheduleRecord(c, SubmittedFields(c.sel))

\* A submission that confirms the schedule whatever createMemory did.
CheckInStoreMutant ==
  /\ \E v \in Calls :
       /\ At(v, "checkin", "subStore")
       /\ \E r \in CreateOutcomes(scheduleStore, ScheduleRoom, SubmittedSchedule(calls[v]).id) :
            /\ scheduleStore' = IF r = "ok"
                                  THEN StoreSchedule(scheduleStore, SubmittedSchedule(calls[v]))
                                  ELSE scheduleStore
            /\ EmitOrCatch(v, [calls[v] EXCEPT !.wroteSchedule = (r = "ok")], "created")
  /\ UNCHANGED <<stateData, rooms, configStore, now, reportChannelConfigs, regVars>>

\* storeCheckInSchedule: await createMemory settles; a failure is rethrown into
\* the catch of handleCheckInSubmission; after a success the confirmation is
\* emitted.
CheckInStore ==
  /\ \E v \in Calls :
       /\ At(v, "checkin", "subStore")
       /\ \E r \in CreateOutcomes(scheduleStore, ScheduleRoom, SubmittedSchedule(calls[v]).id) :
            IF r = "ok"
              THEN /\ scheduleStore' = StoreSchedule(scheduleStore, SubmittedSchedule(calls[v]))
                   /\ EmitOrCatch(v, [calls[v] EXCEPT !.wroteSchedule = TRUE], "created")
              ELSE /\ UNCHANGED scheduleStore
                   /\ SubmissionCatch(v, calls[v],
                                      CreateError(scheduleStore, SubmittedSchedule(calls[v]).id))
  /\ UNCHANGED <<stateData, rooms, configStore, now, reportChannelConfigs, regVars>>

\* What a submitted report-channel form carries in report_channel.
ReportForms == {"none", "c1", "c2"}

\* customId submit_report_channel: handleReportChannelSubmission up to the call
\* of storeReportChannelConfig. server_info gives the server id or nothing; a
\* submission without a report channel is dropped.
ReportInvoke ==
  /\ \E v \in Calls, m \in Msgs, sel \in ReportForms, info \in BOOLEAN :
       /\ NextCall(v)
       /\ LET c == [Invocation("report", m, "none", FALSE) EXCEPT
                     !.sel = sel, !.server = IF info THEN ServerOf(m) ELSE "undefined"]
          IN IF sel = "none" THEN Return(v, c, "resolved") ELSE Goto(v, c, "repRoom")
  /\ UNCHANGED <<stateData, rooms, configStore, scheduleStore, now, reportChannelConfigs, regVars>>

\* storeReportChannelConfig: await ensureRoomExists settles; a failure is
\* rethrown and logged by handleReportChannelSubmission.
ReportRoom ==
  /\ \E v \in Calls :
       /\ At(v, "report", "repRoom")
       /\ \/ /\ rooms' = rooms \cup {ConfigRoom}
             /\ Goto(v, Ensured(calls[v], ConfigRoom), "repStore")
          \/ /\ UNCHANGED rooms
             /\ Return(v, calls[v], "resolved")
  /\ UNCHANGED <<stateData, configStore, scheduleStore, now, reportChannelConfigs, regVars>>

\* The config record of the form: id: createUniqueUuid(runtime,
\* `report-channel-config'}`), the same for every server.
SubmittedConfig(c) ==
  [id |-> <<"report-channel-config'}">>, type |-> "report-channel-config",
   serverId |-> c.server, channelId |-> c.sel]

\* this.reportChannelConfigs.set(config.serverId, config) if there is a server id.
CacheSet(cache, c) ==
  IF c.server \in Servers THEN [cache EXCEPT ![c.server] = c.sel] ELSE cache

\* A storeReportChannelConfig that sets the cache before it knows whether
\* createMemory succeeded.
ReportStoreMutant ==
  /\ \E v \in Calls :
       /\ At(v, "report", "repStore")
       /\ reportChannelConfigs' = CacheSet(reportChannelConfigs, calls[v])
       /\ \E r \in CreateOutcomes(configStore, ConfigRoom, SubmittedConfig(calls[v]).id) :
            IF r = "ok"
              THEN /\ configStore' = Append(configStore, SubmittedConfig(calls[v]))
                   /\ Return(v, Replied([calls[v] EXCEPT !.wroteConfig = TRUE], "configured"),
                             "resolved")
              ELSE /\ UNCHANGED configStore
                   /\ Return(v, [calls[v] EXCEPT !.duplicate =
                         (CreateError(configStore, SubmittedConfig(calls[v]).id) = "duplicate")],
                             "resolved")
  /\ UNCHANGED <<stateData, rooms, scheduleStore, now, regVars>>

\* storeReportChannelConfig: await createMemory settles. After a success the
\* cache is set and the confirmation is emitted; a failure, and a failure to
\* emit, is logged by handleReportChannelSubmission.
ReportStore ==
  /\ \E v \in Calls :
       /\ At(v, "report", "repStore")
       /\ \E r \in CreateOutcomes(configStore, ConfigRoom, SubmittedConfig(calls[v]).id) :
            IF r = "ok"
              THEN /\ configStore' = Append(configStore, SubmittedConfig(calls[v]))
                   /\ reportChannelConfigs' = CacheSet(reportChannelConfigs, calls[v])
                   /\ Return(v, Replied([calls[v] EXCEPT !.wroteConfig = TRUE], "configured"),
                             "resolved")
              ELSE /\ UNCHANGED <<configStore, reportChannelConfigs>>
                   /\ Return(v, [calls[v] EXCEPT !.duplicate =
                         (CreateError(configStore, SubmittedConfig(calls[v]).id) = "duplicate")],
                             "resolved")
  /\ UNCHANGED <<stateData, rooms, scheduleStore, now, regVars>>

\* getReportChannel(serverId): this.reportChannelConfigs.get(serverId)?.channelId
GetReportChannel(serverId) == reportChannelConfigs[serverId]

\* The service has started and its load found no record.
LoadIdle ==
  /\ loadPc = "done"
  /\ loadFrom = 0

\* No handler invocation is under way.
NoCallInFlight == \A v \in Calls : calls[v].pc \in {"new", "done"}

\* The process is restarted while no handler runs and CheckInService.start
\* runs anew: the cache of the new instance is empty, initialize registers the
\* interaction handler, and loadReportChannelConfigs calls ensureRoomExists.
ServiceStart ==
  /\ loadPc = "done"
  /\ NoCallInFlight
  /\ reportChannelConfigs' = [srv \in Servers |-> "none"]
  /\ loadPc' = "room"
  /\ UNCHANGED <<loadFrom, calls, stateData, rooms, configStore, scheduleStore, now,
                 channelVars, listVars, indexVars, evaluatorVars, overlapVars, registrationState>>

\* loadReportChannelConfigs: await ensureRoomExists settles; then getMemories
\* is called. A failure is caught and logged, and nothing is loaded.
LoadRoom ==
  /\ loadPc = "room"
  /\ \/ /\ rooms' = rooms \cup {ConfigRoom}
        /\ loadPc' = "reading"
        /\ loadFrom' = Len(configStore)
     \/ /\ loadPc' = "done"
        /\ loadFrom' = 0
        /\ UNCHANGED rooms
  /\ UNCHANGED <<calls, stateData, configStore, scheduleStore, now, reportChannelConfigs,
                 channelVars, listVars, indexVars, evaluatorVars, overlapVars, registrationState>>

\* A load that files the last record read under every server.
LoadedCacheMutant(cache, n) ==
  [srv \in Servers |-> IF n > 0 THEN configStore[n].channelId ELSE cache[srv]]

\* for (const memory of memories) ... this.reportChannelConfigs.set(serverId,
\* config) over the n records read, in their order: a later record of a
\* server replaces an earlier one.
LoadedCache(cache, n) ==
  [srv \in Servers |->
     LET of == {k \in 1..n : configStore[k].serverId = srv}
     IN IF of = {} THEN cache[srv]
        ELSE configStore[CHOOSE k \in of : \A h \in of : h <= k].channelId]

\* loadReportChannelConfigs: await getMemories settles with the records the
\* room held at some moment since the call (or throws, which is logged); the
\* cache is set from them.
LoadMemories ==
  /\ loadPc = "reading"
  /\ loadPc' = "done"
  /\ loadFrom' = 0
  /\ \/ UNCHANGED reportChannelConfigs
     \/ \E n \in loadFrom..Len(configStore) :
          reportChannelConfigs' = LoadedCache(reportChannelConfigs, n)
  /\ UNCHANGED <<calls, stateData, rooms, configStore, scheduleStore, now,
                 channelVars, listVars, indexVars, evaluatorVars, overlapVars, registrationState>>

HandlersIdle ==
  /\ calls = [v \in Calls |-> NoCall]
  /\ stateData = [st \in StateObjs |-> {}]
  /\ rooms = {}
  /\ configStore = <<>>
  /\ scheduleStore = <<>>
  /\ now = 0
  /\ reportChannelConfigs = [srv \in Servers |-> "none"]

\* ------------------------------------------------- channel-name resolution
ChannelIds == {"c1", "c2"}

BoundedSeq(S, n) == UNION {[1..k -> S] : k \in 0..n}

ChannelIdle ==
  /\ textChannels = <<>>
  /\ channelName = ""
  /\ channelId = "unset"

\* The handler resolves the extracted name of the updates channel (and, in
\* the same way, that of the check-in channel) against textChannels.
ResolveName ==
  /\ channelId = "unset"
  /\ channelId' = ResolveChannel(textChannels, channelName)
  /\ UNCHANGED <<textChannels, channelName, listVars, indexVars, evaluatorVars,
                 loadVars, overlapVars, registrationState, handlerState>>

\* ------------------------------------------------------- team-member list
Sections == {"dev", "ops"}
MemberNames == {"ann", "bob"}

\* TeamMember, as far as the reply shows it.
TeamMember == [section : Sections, discordName : MemberNames]

\* `Section: ${member.section} | Discord: ${member.discordName}`
MemberLine(member) == [section |-> member.section, who |-> member.discordName]

\* The places of a sequence that hold the first occurrence of their element.
FirstOccurrences(seq) == {k \in 1..Len(seq) : \A j \in 1..(k - 1) : seq[j] # seq[k]}

\* A list that shows every member once.
FormatMembersMutant(members) ==
  LET keep == FirstOccurrences(members)
      Nth(n) == CHOOSE k \in keep : Cardinality({h \in keep : h <= k}) = n
  IN [n \in 1..Cardinality(keep) |-> MemberLine(members[Nth(n)])]

\* formattedMembers = teamMembers.map(member => memberLine), joined by '\n':
\* one line per stored member, in the stored order. The sectionMap that the
\* handler builds before is not read by it.
FormatMembers(members) == [k \in 1..Len(members) |-> MemberLine(members[k])]

ListIdle ==
  /\ teamMembers = <<>>
  /\ formattedMembers = <<>>

\* The list handler found a record with members and builds the reply.
ListFormat ==
  /\ Len(teamMembers) > 0
  /\ formattedMembers = <<>>
  /\ formattedMembers' = FormatMembers(teamMembers)
  /\ UNCHANGED <<teamMembers, channelVars, indexVars, evaluatorVars,
                 loadVars, overlapVars, registrationState, handlerState>>

\* ------------------------------------------------- agents of the project
\* allAgents, by the keys of agentsMap.
AllAgents == <<"devRel", "communityManager", "liaison", "projectManager", "socialMediaManager">>

AgentKeys == {AllAgents[k] : k \in 1..Len(AllAgents)}

\* A command-line argument: whether it starts with '--', and what follows
\* (the whole argument when it does not).
Arg(dashes, rest) == [dashes |-> dashes, rest |-> rest]

Args ==
  {Arg(TRUE, "devRel"), Arg(TRUE, "DEVREL"), Arg(TRUE, "projectManager"),
   Arg(TRUE, "nobody"), Arg(TRUE, ""), Arg(FALSE, "start")}

\* A character as far as hasRequiredEnvVars reads it: character.plugins and
\* the names set in character.settings.secrets.
Characters ==
  {[plugins |-> {"@elizaos/plugin-sql"}, secrets |-> {}],
   [plugins |-> {"@elizaos/plugin-sql", "@elizaos/plugin-discord"},
    secrets |-> {"DISCORD_APPLICATION_ID", "DISCORD_API_TOKEN"}],
   [plugins |-> {"@elizaos/plugin-discord"}, secrets |-> {"DISCORD_APPLICATION_ID"}],
   [plugins |-> {"@elizaos/plugin-discord", "@elizaos/plugin-telegram"},
    secrets |-> {"DISCORD_API_TOKEN", "TELEGRAM_BOT_TOKEN"}]}

\* A check that is content with the application id.
HasRequiredEnvVarsMutant(character) ==
  LET usesDiscord == "@elizaos/plugin-discord" \in character.plugins
      usesTelegram == "@elizaos/plugin-telegram" \in character.plugins
  IN IF ~usesDiscord /\ ~usesTelegram THEN TRUE
     ELSE \/ usesDiscord /\ "DISCORD_APPLICATION_ID" \in character.secrets
          \/ usesTelegram /\ "TELEGRAM_BOT_TOKEN" \in character.secrets

HasRequiredEnvVars(character) ==
  LET usesDiscord == "@elizaos/plugin-discord" \in character.plugins
      usesTelegram == "@elizaos/plugin-telegram" \in character.plugins
  IN IF ~usesDiscord /\ ~usesTelegram THEN TRUE
     ELSE \/ /\ usesDiscord
             /\ "DISCORD_APPLICATION_ID" \in character.secrets
             /\ "DISCORD_API_TOKEN" \in character.secrets
          \/ usesTelegram /\ "TELEGRAM_BOT_TOKEN" \in character.secrets

\* rawArgs.indexOf('--'), counted from 1; 0 when there is none.
DoubleDashIndex(args) ==
  LET at == {k \in 1..Len(args) : args[k] = Arg(TRUE, "")}
  IN IF at = {} THEN 0 ELSE CHOOSE k \in at : \A h \in at : k <= h

\* With '--' only what follows it is considered; without, every argument.
\* Kept are the arguments that start with '--'.
PotentialAgentFlags(args) ==
  IF DoubleDashIndex(args) # 0
    THEN SelectSeq(SubSeq(args, DoubleDashIndex(args) + 1, Len(args)),
                   LAMBDA arg : arg.dashes)
    ELSE SelectSeq(args, LAMBDA arg : arg.dashes /\ arg # Arg(TRUE, ""))

\* potentialAgentFlags.map(arg => arg.replace(/^--/, '').toLowerCase())
RequestedAgentNames(flags) == {ToLowerCase(flags[k].rest) : k \in 1..Len(flags)}

\* allAgents.filter(agent => requestedAgentNames.includes(agentKey.toLowerCase()))
MatchedAgents(flags) ==
  SelectSeq(AllAgents, LAMBDA key : ToLowerCase(key) \in RequestedAgentNames(flags))

\* Flags that name no agent select every agent.
EnabledAgentsMutant(flags) ==
  IF flags # <<>> /\ MatchedAgents(flags) # <<>> THEN MatchedAgents(flags) ELSE AllAgents

\* enabledAgents: all agents without flags, the matched ones with flags, none
\* when flags were given and none matched.
EnabledAgents(flags) ==
  IF flags = <<>> THEN AllAgents
  ELSE IF MatchedAgents(flags) # <<>> THEN MatchedAgents(flags)
  ELSE <<>>

\* availableAgents = enabledAgents.filter(hasRequiredEnvVars)
AvailableAgents(enabled, chars) ==
  SelectSeq(enabled, LAMBDA key : HasRequiredEnvVars(chars[key]))

IndexIdle ==
  /\ rawArgs = <<>>
  /\ characters = [key \in AgentKeys |-> [plugins |-> {}, secrets |-> {}]]
  /\ potentialAgentFlags = <<>>
  /\ project = <<>>
  /\ indexPc = "start"

\* src/index.ts is evaluated: project.agents is computed from the command
\* line and the characters.
LoadIndex ==
  /\ indexPc = "start"
  /\ indexPc' = "loaded"
  /\ potentialAgentFlags' = PotentialAgentFlags(rawArgs)
  /\ project' = AvailableAgents(EnabledAgents(PotentialAgentFlags(rawArgs)), characters)
  /\ UNCHANGED <<rawArgs, characters, channelVars, listVars, evaluatorVars,
                 loadVars, overlapVars, registrationState, handlerState>>

\* ------------------------------------------------- due-schedule evaluation
\* The job's body is not among the sources; the evaluation is written from
\* the description of the Due-Schedule Evaluator. Time is counted in units of
\* five minutes.

\* Two schedules, by what frequency, checkInTime and createdAt make of them:
\* the first nominal instant and the distance between two of them. The first
\* has two nominal instants within one polling interval.
DueSchedules ==
  {[scheduleId |-> "often", first |-> 1, every |-> 2],
   [scheduleId |-> "seldom", first |-> 0, every |-> 4]}

ScheduleIds == {sch.scheduleId : sch \in DueSchedules}

NoInstant == -1

\* The most recent nominal instant at or before t.
MostRecentInstant(t, sch) ==
  IF t < sch.first THEN NoInstant ELSE t - ((t - sch.first) % sch.every)

\* An evaluator without the last-dispatched marker.
IsDueMutant(t, sch, marker) ==
  /\ MostRecentInstant(t, sch) # NoInstant
  /\ MostRecentInstant(t, sch) > t - PollingInterval

\* Due: the most recent instant lies within the last polling interval and has
\* not been dispatched.
IsDue(t, sch, marker) ==
  /\ MostRecentInstant(t, sch) # NoInstant
  /\ MostRecentInstant(t, sch) > t - PollingInterval
  /\ marker # MostRecentInstant(t, sch)

EvaluatorIdle ==
  /\ utcNow = 0
  /\ lastDispatched = [id \in ScheduleIds |-> NoInstant]
  /\ dispatches = [id \in ScheduleIds |-> <<>>]

\* Time passes between two ticks, by any amount.
TimePasses ==
  /\ \E t \in (utcNow + 1)..MaxTime : utcNow' = t
  /\ UNCHANGED <<lastDispatched, dispatches, channelVars, listVars, indexVars,
                 loadVars, overlapVars, registrationState, handlerState>>

\* One tick of the job: every schedule is evaluated against the current time;
\* for a due one the reminder is dispatched and its marker is set.
EvaluateTick ==
  /\ lastDispatched' =
       [id \in ScheduleIds |->
          LET sch == CHOOSE x \in DueSchedules : x.scheduleId = id
          IN IF IsDue(utcNow, sch, lastDispatched[id])
               THEN MostRecentInstant(utcNow, sch) ELSE lastDispatched[id]]
  /\ dispatches' =
       [id \in ScheduleIds |->
          LET sch == CHOOSE x \in DueSchedules : x.scheduleId = id
          IN IF IsDue(utcNow, sch, lastDispatched[id])
               THEN Append(dispatches[id],
                           [at |-> utcNow, instant |-> MostRecentInstant(utcNow, sch)])
               ELSE dispatches[id]]
  /\ UNCHANGED <<utcNow, channelVars, listVars, indexVars,
                 loadVars, overlapVars, registrationState, handlerState>>

\* ------------------------------------------------------------ specifications
\* None of the computations studied on their own has been given an input.
FnIdle ==
  ChannelIdle /\ ListIdle /\ IndexIdle /\ EvaluatorIdle /\ LoadIdle /\ OverlapIdle

\* The process has started and nothing of the plugin has run.
RegStart ==
  /\ pmPc = "start"
  /\ registeredActions = {}
  /\ services = {}
  /\ loopPc = "idle"
  /\ i = 0
  /\ delay = InitialDelay
  /\ attempts = 0
  /\ toDelete = {}
  /\ workers = {}
  /\ created = "none"
  /\ restarts = 0
  /\ tick = [t \in Ticks |-> "idle"]
  /\ isJobRunning = FALSE

\* The host is in any state of readiness; its task store holds what earlier
\* processes left in it: a task of another plugin and possibly the periodic
\* task of the previous run.
RegInit ==
  /\ hasGetTasks \in BOOLEAN
  /\ hasCreateTask \in BOOLEAN
  /\ hasAdapter \in BOOLEAN
  /\ faulty \in BOOLEAN
  /\ \E old \in {0, 1} :
       /\ tasks = {ForeignTask} \cup {PeriodicTask(k) : k \in 1..old}
       /\ nextId = old + 1
  /\ RegStart
  /\ HandlersIdle
  /\ FnIdle

LoopStep == LoopAttempt \/ RegListed \/ RegDeleteOne \/ LoopTimer

RegLiveNext ==
  \/ HostChange
  \/ PMRegisterActions
  \/ PMRegisterServices
  \/ LoopAttempt
  \/ RegListed
  \/ RegDeleteOne
  \/ LoopTimer
  \/ TickStart
  \/ TickFinish

RegNext == RegLiveNext \/ Restart

\* Registration, ticks and restarts.
RegSpec == RegInit /\ [][RegNext]_vars

\* One process without a restart; timers fire and awaited host calls settle.
RegLive == RegInit /\ [][RegLiveNext]_vars /\ WF_vars(LoopStep)

\* A ready host on which nothing of the plugin has run.
Quiet ==
  /\ hasGetTasks = TRUE
  /\ hasCreateTask = TRUE
  /\ hasAdapter = TRUE
  /\ faulty = FALSE
  /\ tasks = {ForeignTask}
  /\ nextId = 1
  /\ RegStart
  /\ HandlersIdle

HandlerInit == Quiet /\ FnIdle

HandlerNext ==
  \/ RecordInvoke
  \/ RecordDiscord
  \/ RecordMemories
  \/ RecordClassify
  \/ RecordExtract
  \/ RecordCfgRoom
  \/ RecordCfgStore
  \/ RecordSchRoom
  \/ RecordSchStore
  \/ ListInvoke
  \/ ListMemories
  \/ InfoInvoke
  \/ InfoDiscord
  \/ InfoChannels
  \/ InfoMemories
  \/ SupportInvoke
  \/ InteractionIgnored
  \/ CheckInInvoke
  \/ CheckInRoom
  \/ CheckInStore
  \/ ReportInvoke
  \/ ReportRoom
  \/ ReportStore

\* The host invokes the action handlers, concurrently, against one record store.
HandlerSpec == HandlerInit /\ [][HandlerNext]_vars

RecordNext ==
  \/ RecordInvoke
  \/ RecordDiscord
  \/ RecordMemories
  \/ RecordClassify
  \/ RecordExtract
  \/ RecordCfgRoom
  \/ RecordCfgStore
  \/ RecordSchRoom
  \/ RecordSchStore

\* The record command alone.
RecordSpec == HandlerInit /\ [][RecordNext]_vars

EntryNext ==
  \/ ListInvoke
  \/ ListMemories
  \/ InfoInvoke
  \/ InfoDiscord
  \/ InfoChannels
  \/ InfoMemories
  \/ SupportInvoke

\* The handlers that read and reply only.
EntrySpec == HandlerInit /\ [][EntryNext]_vars

SubmitNext ==
  \/ InteractionIgnored
  \/ CheckInInvoke
  \/ CheckInRoom
  \/ CheckInStore
  \/ ReportInvoke
  \/ ReportRoom
  \/ ReportStore

\* The form submissions the CheckInService handles.
SubmitSpec == HandlerInit /\ [][SubmitNext]_vars

StoreNext == RecordNext \/ SubmitNext

\* Everything that writes to the record store: the record command and the forms.
StoreSpec == HandlerInit /\ [][StoreNext]_vars

\* Any channel list and any extracted name (none, as the empty string).
ChannelInit ==
  /\ Quiet
  /\ textChannels \in BoundedSeq([id : ChannelIds, name : ChannelNames], MaxChannels)
  /\ channelName \in ChannelNames \cup {""}
  /\ channelId = "unset"
  /\ ListIdle
  /\ IndexIdle
  /\ EvaluatorIdle
  /\ LoadIdle
  /\ OverlapIdle

ChannelNext == ResolveName

\* The channel-name resolution of the record handler on its own.
ChannelSpec == ChannelInit /\ [][ChannelNext]_vars

\* Any stored member sequence.
ListInit ==
  /\ Quiet
  /\ ChannelIdle
  /\ teamMembers \in BoundedSeq(TeamMember, MaxMembers)
  /\ formattedMembers = <<>>
  /\ IndexIdle
  /\ EvaluatorIdle
  /\ LoadIdle
  /\ OverlapIdle

ListNext == ListFormat

\* The member list of the list handler on its own.
ListSpec == ListInit /\ [][ListNext]_vars

\* Any command line and any configuration of the five agents.
IndexInit ==
  /\ Quiet
  /\ ChannelIdle
  /\ ListIdle
  /\ rawArgs \in BoundedSeq(Args, MaxArgs)
  /\ characters \in [AgentKeys -> Characters]
  /\ potentialAgentFlags = <<>>
  /\ project = <<>>
  /\ indexPc = "start"
  /\ EvaluatorIdle
  /\ LoadIdle
  /\ OverlapIdle

IndexNext == LoadIndex

\* The selection of the agents at startup.
IndexSpec == IndexInit /\ [][IndexNext]_vars

EvaluatorInit == Quiet /\ FnIdle

EvaluatorNext == TimePasses \/ EvaluateTick

\* The ticks of the job over the schedules, at any distance from each other.
EvaluatorSpec == EvaluatorInit /\ [][EvaluatorNext]_vars

CacheNext ==
  \/ RecordNext
  \/ ReportInvoke
  \/ ReportRoom
  \/ ReportStore
  \/ ServiceStart
  \/ LoadRoom
  \/ LoadMemories

\* The writers of report-channel configs (the record command and the form)
\* and the service's cache of them, over restarts of the service.
CacheSpec == HandlerInit /\ [][CacheNext]_vars

OverlapNext ==
  \/ OverlapInitPlugin
  \/ OverlapAttempt
  \/ OverlapListed
  \/ OverlapDeleteOne
  \/ OverlapTimer

\* Several retry loops of one process on a host that does not change.
OverlapSpec == RegInit /\ [][OverlapNext]_vars

\* ------------------------------------------------------------------- claims
\* C1: after any sequence of registerTasks runs, runs in which listing or
\* deleting the old tasks fails included, at most one task carrying the tags
\* {queue, repeat, team_coordinator} is in the host task store.
C1_AtMostOneCoordTask == Cardinality(CoordTasks) <= 1

\* C2: the retry loop makes at most Retries attempts, terminates once it was
\* started, and makes no attempt after the budget is exhausted.
C2_BoundedRetry ==
  /\ [](attempts <= Retries)
  /\ [][loopPc = "exhausted" => (loopPc' = "exhausted" /\ attempts' = attempts)]_vars
  /\ (loopPc = "check" ~> loopPc \in {"success", "exhausted"})

C2_Witness == loopPc = "exhausted" /\ attempts = Retries

\* C3 as stated: the wait starts at the starting delay and doubles after every
\* failed attempt until it reaches the cap.
C3_DelayDoubles ==
  /\ [](delay <= MaxDelay)
  /\ [][(delay' # delay \/ (loopPc = "wait" /\ loopPc' # "wait"))
          => delay' = Min(2 * delay, MaxDelay)]_vars

\* C3 as amended: the wait starts at the starting delay, is multiplied by 1.2
\* after every attempt that did not succeed until it reaches the cap, and
\* never exceeds the cap.
C3_DelayBackoff ==
  /\ [](InitialDelay <= delay /\ delay <= MaxDelay)
  /\ [][(delay' # delay \/ (loopPc = "wait" /\ loopPc' # "wait"))
          => IF BackoffNum * delay < BackoffDen * MaxDelay
               THEN BackoffDen * delay' = BackoffNum * delay
               ELSE delay' = MaxDelay]_vars

C3_Witness == delay = MaxDelay /\ loopPc = "check" /\ i = 6

\* The Runner is ACTIVE: the loop returned after a registerTasks run, the
\* worker is registered and the periodic task was created.
Active ==
  /\ loopPc = "success"
  /\ WorkerName \in workers
  /\ created = "created"
  /\ \E t \in CoordTasks : t.name = WorkerName

\* The loop is running and at least one attempt is still to come or in flight.
InBudget ==
  \/ loopPc \in {"check", "listing", "deleting"}
  \/ loopPc = "wait" /\ LoopContinues(i + 1)

\* C4: if the task subsystem is available at some attempt within the budget
\* and stays available, the Runner eventually is ACTIVE.
C4_EventuallyActive == [](((InBudget /\ []Available)) => <>Active)

C4_Witness == Active /\ Available /\ i >= 2

\* C5: whenever the loop reports success, the worker is registered and the
\* periodic task exists, created by the registerTasks run that succeeded.
C5_SuccessImpliesRegistered ==
  loopPc = "success" => (WorkerName \in workers /\ created = "created" /\ CoordTasks # {})

\* C6: when every registration attempt failed, projectManager.init and the
\* plugin init have completed without throwing and every plugin action is
\* registered with the runtime.
C6_RegistrationFailureNonFatal ==
  loopPc = "exhausted" => (pmPc = "done" /\ PluginActions \subseteq registeredActions)

C6_Witness ==
  /\ loopPc = "exhausted"
  /\ pmPc = "done"
  /\ {"RECORD_CHECK_IN", "LIST_CHECK_IN_SCHEDULES", "LIST_TEAM_MEMBERS",
      "ADD_TEAM_MEMBER", "GENERATE_REPORT"} \subseteq registeredActions

Running == {t \in Ticks : tick[t] = "running"}

C8_ExecuteContainsFailure ==
  /\ \A t \in Ticks : tick[t] # "rejected"
  /\ (\E t \in Ticks : tick[t] = "caught")
       => (WorkerName \in workers /\ (isJobRunning => Running # {}))

C8_Witness == \E t, u \in Ticks : t < u /\ tick[t] = "caught" /\ tick[u] = "running"

\* Two invocations of the same handler for the same message with the same
\* state object and a callback, u started before v.
Redelivery(kinds, u, v) ==
  /\ u < v
  /\ calls[v].pc # "new"
  /\ calls[u].kind \in kinds
  /\ calls[v].kind = calls[u].kind
  /\ calls[v].msg = calls[u].msg
  /\ calls[v].st = calls[u].st
  /\ calls[u].st # "undefined"
  /\ calls[u].cb
  /\ calls[v].cb

\* C9: of the invocations of the record handler with one message id and one
\* state object, in sequence or interleaved, only the first passes the guard;
\* every other one returns true without a reply and without writing a config
\* or schedule record.
C9_RecordGuard ==
  \A u, v \in Calls :
    Redelivery({"record"}, u, v) =>
      /\ (\A w \in 1..(u - 1) : ~Redelivery({"record"}, w, u)) => calls[u].passed
      /\ ~calls[v].passed
      /\ calls[v].pc = "done"
      /\ calls[v].result = "true"
      /\ calls[v].replies = <<>>
      /\ ~calls[v].wroteConfig
      /\ ~calls[v].wroteSchedule

C9_Witness ==
  \E u, v \in Calls :
    /\ Redelivery({"record"}, u, v)
    /\ calls[u].passed
    /\ calls[u].pc \notin {"new", "done"}
    /\ calls[v].pc = "done"
    /\ calls[v].result = "true"

\* C10: two invocations of the list-team-members, check-in-info or support
\* handler with one message id and one state object invoke the reply callback
\* at most once in total.
C10_EntryGuards ==
  \A u, v \in Calls :
    Redelivery({"list", "info", "support"}, u, v) =>
      Len(calls[u].replies) + Len(calls[v].replies) <= 1

\* Every record of the store is still there, unchanged, after the step.
Kept(store, after) ==
  /\ Len(after) >= Len(store)
  /\ \A k \in 1..Len(store) : after[k] = store[k]

ConfigsOf(server) == {k \in 1..Len(configStore) : configStore[k].serverId = server}

\* C11: through the record command at most one report-channel-config record
\* per server is ever stored, and a stored config record is never changed or
\* removed, however many further record commands for the server are handled.
C11_ReportChannelIdempotent ==
  /\ [](\A server \in Servers : Cardinality(ConfigsOf(server)) <= 1)
  /\ [][Kept(configStore, configStore')]_vars

C11_Witness ==
  \E u, v \in Calls :
    /\ u # v
    /\ calls[u].kind = "record" /\ calls[v].kind = "record"
    /\ calls[u].msg = calls[v].msg
    /\ calls[u].wroteConfig
    /\ calls[v].pc = "done" /\ calls[v].wroteSchedule /\ ~calls[v].wroteConfig
    /\ Cardinality(ConfigsOf(ServerOf(calls[u].msg))) = 1

\* C12: the record handler takes a report-channel config as existing only if
\* a config record of its own server is stored; without one it writes the
\* server's config, whatever other servers have stored.
C12_DetectionPerServer ==
  \A v \in Calls :
    (calls[v].kind = "record" /\ calls[v].existing) => ConfigsOf(ServerOf(calls[v].msg)) # {}

\* C13: after two report-channel submissions for one server, the first stored
\* with channel c1 and the second with channel c2 not failing for a reason of
\* the host, getReportChannel(server) returns c2.
C13_LastWriteWins ==
  \A u, v \in Calls :
    ( /\ u < v
      /\ calls[u].kind = "report" /\ calls[v].kind = "report"
      /\ calls[u].pc = "done" /\ calls[v].pc = "done"
      /\ calls[u].server \in Servers /\ calls[v].server = calls[u].server
      /\ calls[u].sel = "c1" /\ calls[v].sel = "c2"
      /\ calls[u].wroteConfig
      /\ (calls[v].wroteConfig \/ calls[v].duplicate) )
    => GetReportChannel(calls[u].server) = "c2"

\* C14: a form submission whose store raised a duplicate-key failure has
\* emitted the 'already submitted' reply and has not thrown to the dispatcher.
C14_DuplicateAnswered ==
  \A v \in Calls :
    (calls[v].kind \in {"checkin", "report"} /\ calls[v].pc = "done" /\ calls[v].duplicate)
    => /\ calls[v].result = "resolved"
       /\ \E k \in 1..Len(calls[v].replies) : calls[v].replies[k] = "already_submitted"

\* The times of the form HH:MM among the times that occur.
TimesHHMM == {"09:00", "14:30"}

ValidSchedule(schedule) ==
  /\ schedule.channelId # ""
  /\ schedule.frequency \in Frequencies
  /\ schedule.checkInTime \in TimesHHMM

\* C15: every persisted schedule has a channel id, a frequency of the enum
\* and a check-in time of the form HH:MM.
C15_SchedulesValidated ==
  \A k \in 1..Len(scheduleStore) : ValidSchedule(scheduleStore[k])

\* The step is a step of an invocation that has called ensureRoomExists for
\* the room.
StepOfEnsured(room) == \E v \in Calls : calls'[v] # calls[v] /\ room \in calls[v].ensured

\* C16: a schedule or a config is written only by an invocation that has
\* called ensureRoomExists for the record's room before; the room may have
\* existed already.
C16_RoomBeforeRecord ==
  [][ /\ (scheduleStore' # scheduleStore) => StepOfEnsured(ScheduleRoom)
      /\ (configStore' # configStore) => StepOfEnsured(ConfigRoom) ]_vars

C16_Witness ==
  /\ Len(scheduleStore) = 2
  /\ Len(configStore) >= 1
  /\ \E u, v \in Calls : calls[u].kind = "record" /\ calls[u].wroteSchedule
                          /\ calls[v].kind = "checkin" /\ calls[v].wroteSchedule

C18_ScheduleIdUnique ==
  \A j, k \in 1..Len(scheduleStore) :
    scheduleStore[j].scheduleId = scheduleStore[k].scheduleId => j = k

C20_UnparsableAnswered ==
  \A v \in Calls :
    (calls[v].kind = "record" /\ calls[v].unparsable) =>
      /\ calls[v].pc = "done"
      /\ ~calls[v].wroteConfig
      /\ ~calls[v].wroteSchedule
      /\ calls[v].replies = <<"retry">>
      /\ calls[v].result = "false"

\* Two names are equal ignoring case when they are spellings of one name.
Spellings ==
  {{"General", "GENERAL", "general"}, {"Updates", "updates"}, {"random"},
   {"devRel", "DEVREL"}, {"communityManager"}, {"liaison"}, {"projectManager"},
   {"socialMediaManager"}, {"nobody"}}
SameIgnoringCase(a, b) == \E sp \in Spellings : a \in sp /\ b \in sp

ReferenceLookup(channels, name) ==
  LET hits == {k \in 1..Len(channels) : SameIgnoringCase(channels[k].name, name)}
  IN IF hits = {} THEN "" ELSE channels[CHOOSE k \in hits : \A h \in hits : k <= h].id

\* C21: the id the record handler resolves an extracted channel name to is
\* the id of the first text channel whose name equals the extracted name
\* ignoring case, and is empty when no channel matches or the list is empty.
C21_ResolutionIsReference ==
  channelId # "unset" => channelId = ReferenceLookup(textChannels, channelName)

C21_Witness ==
  /\ Len(textChannels) = 2
  /\ textChannels[1].id # textChannels[2].id
  /\ SameIgnoringCase(textChannels[1].name, channelName)
  /\ SameIgnoringCase(textChannels[2].name, channelName)
  /\ textChannels[1].name # channelName
  /\ channelId = textChannels[1].id

\* C22: a record invocation for a server whose guild cannot be reached (it is
\* not found, or its channels cannot be fetched) persists neither a
\* report-channel config nor a schedule.
C22_UnreachableNotPersisted ==
  \A v \in Calls :
    (calls[v].kind = "record" /\ ServerOf(calls[v].msg) \notin ReachableGuilds) =>
      /\ ~calls[v].wroteConfig
      /\ ~calls[v].wroteSchedule

\* C23: in the list reply all members of one section appear together: no
\* line of another section stands between two lines of one section.
C23_SectionsTogether ==
  \A a, b, c \in 1..Len(formattedMembers) :
    (a < b /\ b < c /\ formattedMembers[a].section = formattedMembers[c].section) =>
      formattedMembers[b].section = formattedMembers[a].section

C25_NoDeduplication ==
  formattedMembers # <<>> => Len(formattedMembers) = Len(teamMembers)

C25_Witness ==
  /\ Len(teamMembers) = 2
  /\ teamMembers[1] = teamMembers[2]
  /\ Len(formattedMembers) = 2
  /\ formattedMembers[1] = formattedMembers[2]

\* C26: no handler invocation rejects: each one that has ended has resolved
\* to true or to false.
C26_HandlersNeverReject ==
  \A v \in Calls :
    calls[v].kind \in {"record", "list", "info", "support"} =>
      calls[v].result \in {"pending", "true", "false"}

\* The secrets a chat platform needs.
PlatformSecrets ==
  [discord |-> {"DISCORD_APPLICATION_ID", "DISCORD_API_TOKEN"},
   telegram |-> {"TELEGRAM_BOT_TOKEN"}]

PlatformPlugin == [discord |-> "@elizaos/plugin-discord", telegram |-> "@elizaos/plugin-telegram"]

Uses(character, platform) == PlatformPlugin[platform] \in character.plugins

\* The agent uses no chat platform, or one it uses is fully configured.
Configured(character) ==
  \/ \A pf \in DOMAIN PlatformPlugin : ~Uses(character, pf)
  \/ \E pf \in DOMAIN PlatformPlugin :
       Uses(character, pf) /\ PlatformSecrets[pf] \subseteq character.secrets

Started(key) == \E k \in 1..Len(project) : project[k] = key

NamedByFlag(key) ==
  \E k \in 1..Len(potentialAgentFlags) : SameIgnoringCase(potentialAgentFlags[k].rest, key)

\* C27: every agent of project.agents is configured and, when agent flags were
\* given, named by one of them; without flags every configured agent is in
\* project.agents.
C27_AgentSelection ==
  indexPc = "loaded" =>
    /\ \A key \in AgentKeys :
         Started(key) =>
           /\ Configured(characters[key])
           /\ potentialAgentFlags # <<>> => NamedByFlag(key)
    /\ potentialAgentFlags = <<>> =>
         \A key \in AgentKeys : Configured(characters[key]) => Started(key)

C27_Witness ==
  /\ indexPc = "loaded"
  /\ NamedByFlag("devRel") /\ ~Configured(characters["devRel"])
  /\ NamedByFlag("projectManager") /\ Configured(characters["projectManager"])
  /\ project = <<"projectManager">>

\* C28: when agent flags were given and none of them names an agent,
\* project.agents is empty.
C28_UnknownFlagsEnableNone ==
  (indexPc = "loaded" /\ potentialAgentFlags # <<>>
     /\ \A key \in AgentKeys : ~NamedByFlag(key)) =>
    project = <<>>

C28_Witness ==
  /\ indexPc = "loaded"
  /\ potentialAgentFlags = <<Arg(TRUE, "nobody")>>
  /\ \A key \in AgentKeys : Configured(characters[key])
  /\ project = <<>>

\* C30 as stated: whenever a periodic task named TEAM_CHECK_IN_SERVICE is in
\* the store, a worker of that name is registered.
C30_NoTaskWithoutWorker ==
  (\E t \in tasks : t.name = WorkerName) => WorkerName \in workers

\* C30: every step that adds a periodic task to the store is taken after the
\* purge of its run has ended and with the worker registered: createTask is
\* never called before registerTaskWorker.
C30_CreateAfterWorker ==
  [][\A t \in tasks' \ tasks :
       t.name = WorkerName => (WorkerName \in workers' /\ toDelete' = {})]_vars

C30_Witness ==
  /\ created = "created"
  /\ WorkerName \in workers
  /\ \E t \in tasks : t.name = WorkerName

\* The nominal instants of a schedule up to t.
NominalInstants(sch, t) ==
  {n \in 0..t : n >= sch.first /\ (n - sch.first) % sch.every = 0}

\* C29: for each schedule no two dispatches are for one nominal instant (so an
\* evaluation repeated with unchanged inputs dispatches nothing), no two
\* dispatches are made at one time, and each dispatch is for the latest
\* nominal instant at or before the time of its tick.
C29_DueAtMostOnce ==
  \A sch \in DueSchedules :
    LET made == dispatches[sch.scheduleId]
    IN /\ \A j, k \in 1..Len(made) :
            j # k => (made[j].instant # made[k].instant /\ made[j].at # made[k].at)
       /\ \A k \in 1..Len(made) :
            /\ made[k].instant \in NominalInstants(sch, made[k].at)
            /\ \A n \in NominalInstants(sch, made[k].at) : n <= made[k].instant

\* A tick in whose polling window two nominal instants of a schedule fell
\* dispatched the later one only, and a later tick dispatched the next.
C29_Witness ==
  /\ Len(dispatches["often"]) = 2
  /\ dispatches["often"][1] = [at |-> 3, instant |-> 3]
  /\ dispatches["often"][2].instant = 5
  /\ utcNow > dispatches["often"][2].at

\* C31: once the service has loaded, every server that has a
\* report-channel-config record in the store has a channel in the cache.
C31_CacheComplete ==
  loadPc = "done" =>
    \A k \in 1..Len(configStore) :
      configStore[k].serverId \in Servers =>
        GetReportChannel(configStore[k].serverId) # "none"

\* C32: a channel that getReportChannel returns for a server is the channel of
\* a report-channel-config record of that server in the store.
C32_CacheSound ==
  \A srv \in Servers :
    GetReportChannel(srv) # "none" =>
      \E k \in 1..Len(configStore) :
        /\ configStore[k].type = "report-channel-config"
        /\ configStore[k].serverId = srv
        /\ configStore[k].channelId = GetReportChannel(srv)

\* After a restart the cache was loaded from two records of two servers.
C32_Witness ==
  /\ loadPc = "done"
  /\ Len(configStore) >= 2
  /\ NoCallInFlight
  /\ GetReportChannel("A") # "none"
  /\ GetReportChannel("B") # "none"
  /\ GetReportChannel("A") # GetReportChannel("B")

\* C33: every step of a report-channel submission other than the one in
\* which its createMemory succeeds (so every step of a submission without a
\* report channel, or whose ensureRoomExists or createMemory fails) leaves the
\* cache and the config records as they are.
C33_FailedSubmissionChangesNothing ==
  [][\A v \in Calls :
       (calls'[v] # calls[v] /\ calls'[v].kind = "report" /\ ~calls'[v].wroteConfig) =>
         (configStore' = configStore /\ reportChannelConfigs' = reportChannelConfigs)]_vars

\* A submission with a channel ended without a record although the room is
\* there and no record stood in its way.
C33_Witness ==
  \E v \in Calls :
    /\ calls[v].kind = "report" /\ calls[v].pc = "done"
    /\ calls[v].sel = "c1" /\ calls[v].server = "A"
    /\ ~calls[v].wroteConfig /\ ~calls[v].duplicate
    /\ ConfigRoom \in rooms
    /\ configStore = <<>>
    /\ GetReportChannel("A") = "none"

\* C34: after a stored report-channel submission of one server, the first
\* submission of another server that does not fail for a reason of the host is
\* stored too, getReportChannel returns its channel for its server, and the
\* channel of the first server is as it was.
C34_ServersIndependent ==
  \A u, v \in Calls :
    ( /\ u < v
      /\ calls[u].kind = "report" /\ calls[v].kind = "report"
      /\ calls[u].pc = "done" /\ calls[v].pc = "done"
      /\ calls[u].server \in Servers /\ calls[v].server \in Servers
      /\ calls[v].server # calls[u].server
      /\ calls[u].wroteConfig
      /\ (calls[v].wroteConfig \/ calls[v].duplicate) )
    => /\ calls[v].wroteConfig
       /\ GetReportChannel(calls[v].server) = calls[v].sel
       /\ GetReportChannel(calls[u].server) = calls[u].sel

\* C35: a record invocation that sent the reply 'Check-in schedule has been
\* successfully created' has persisted a schedule record.
C35_SuccessOnlyIfPersisted ==
  \A v \in Calls :
    (calls[v].kind = "record"
       /\ \E k \in 1..Len(calls[v].replies) : calls[v].replies[k] = "success")
    => calls[v].wroteSchedule

\* C36: a record invocation that went on to the extraction was answered
\* 'true' (after trim and lower case) by the classification: its message has
\* no answer that is neither 'true' nor 'false'.
C36_OnlyTrueProceeds ==
  \A v \in Calls :
    (calls[v].kind = "record" /\ calls[v].extracted) =>
      \A a \in ClassifierAnswers(calls[v].msg) \ {"throw"} :
        TrimLowerCase(a) \in {"true", "false"}

\* The replies handleCheckInSubmission can emit.
SubmissionReplies == {"created", "no_form_data", "already_submitted", "save_failed"}

\* C37: a finished submit_checkin_schedule interaction none of whose emits
\* failed was answered with exactly one reply, one of the four; 'created' only
\* with the schedule persisted, 'failed to save' only without; and the handler
\* resolved.
C37_AnsweredExactlyOnce ==
  \A v \in Calls :
    (calls[v].kind = "checkin" /\ calls[v].pc = "done") =>
      /\ calls[v].result = "resolved"
      /\ ~calls[v].cbThrew =>
           /\ Len(calls[v].replies) = 1
           /\ calls[v].replies[1] \in SubmissionReplies
           /\ calls[v].replies[1] = "created" => calls[v].wroteSchedule
           /\ calls[v].replies[1] = "save_failed" => ~calls[v].wroteSchedule

\* Two submissions answered, one with the confirmation and one with the
\* failure.
C37_Witness ==
  \E u, v \in Calls :
    /\ calls[u].kind = "checkin" /\ calls[u].pc = "done" /\ ~calls[u].cbThrew
    /\ calls[u].replies = <<"created">> /\ calls[u].wroteSchedule
    /\ calls[v].kind = "checkin" /\ calls[v].pc = "done" /\ ~calls[v].cbThrew
    /\ calls[v].replies = <<"save_failed">> /\ ~calls[v].wroteSchedule

\* C38: while the retry loop has not returned from registerTasks, createTask
\* has not been invoked (so an attempt that failed and is retried has not
\* created the task); once registerTasks has returned the loop makes no
\* further attempt, so createTask is invoked at most once in the run.
C38_CreateAtMostOnce ==
  [][/\ loopPc # "success" => created = "none"
     /\ loopPc = "success" =>
          /\ loopPc' = "success"
          /\ attempts' = attempts
          /\ created' = created]_vars

\* The loop returned with the task created in its second attempt or later.
C38_Witness ==
  /\ loopPc = "success"
  /\ created = "created"
  /\ attempts >= 2

\* C39: on a host whose calls do not fail, when every retry loop of the
\* process has ended, at most one task with the coordinator's tags is in the
\* task store.
C39_OverlapLeavesOneTask ==
  (~faulty /\ \A r \in Runs : runPc[r] \in {"success", "exhausted"})
    => Cardinality(CoordTasks) <= 1

====
